---- MODULE Spec2Model ----
(***************************************************************************)
(* Day 19 of advent-of-code-2022 (src/bin/19.rs): the branch-and-bound     *)
(* search Blueprint::max_geodes_in_minutes over the robot economy of       *)
(* GameState.  The recursion of max_geode_helper is modelled as an         *)
(* explicit call stack; every action is one stretch of the helper's body   *)
(* between two recursive calls.                                            *)
(***************************************************************************)
EXTENDS Integers, Sequences, FiniteSets, TLC

\* ---------------------------------------------------------------- bounds
MaxMinutes == 11
MaxCost == 3
MaxCallMinutes == 5
MaxCalls == 3
MaxLines == 5
UsizeBits == 12
MaxDepth == 40

\* ------------------------------------------------------------- resources
\* enum Resource { Ore, Clay, Obsidian, Geode }
Resource == {"Ore", "Clay", "Obsidian", "Geode"}

\* derive(PartialOrd, Ord): declaration order, the iteration order of BTreeSet
ResourceOrd(r) ==
    CASE r = "Ore" -> 1 [] r = "Clay" -> 2 [] r = "Obsidian" -> 3 [] r = "Geode" -> 4

Max2(a, b) == IF a >= b THEN a ELSE b

\* ------------------------------------------------------------------ usize
\* The counts, stocks and minutes are usize.  A subtraction below 0 or a
\* product above usize::MAX panics in a build with overflow checks (debug)
\* and wraps in a build without them (release).  The operators are the
\* wrapping ones; the panic is the step Overflow of the search.  The width is
\* UsizeBits, far above every value of a search with at least one minute.
UsizeModulus == 2 ^ UsizeBits

wrapping_add(a, b) == (a + b) % UsizeModulus

wrapping_sub(a, b) == (a - b) % UsizeModulus

wrapping_mul(a, b) == (a * b) % UsizeModulus

\* the least element of a non-empty set of resources in BTreeSet order
FirstResource(S) == CHOOSE r \in S : \A q \in S : ResourceOrd(r) <= ResourceOrd(q)

\* ------------------------------------------------------------- GameState
\* robots and resources are maps Resource -> usize; every read of an absent
\* key goes through unwrap_or(&0), so an absent entry is the entry 0.
ZeroMap == [r \in Resource |-> 0]

\* GameState::default(), which the struct derives: no robot at all
DefaultGameState == [robots |-> ZeroMap, resources |-> ZeroMap]

\* GameState::new()
NewGameState == [robots |-> [ZeroMap EXCEPT !["Ore"] = 1], resources |-> ZeroMap]

\* GameState::collect(): every robot harvests one unit of its resource
collect(state) ==
    [state EXCEPT !.resources = [r \in Resource |-> state.resources[r] + state.robots[r]]]

\* can_afford with any() where the code has all()
can_afford_any(state, costs) ==
    \E res \in DOMAIN costs : state.resources[res] >= costs[res]

\* GameState::can_afford(costs)
can_afford(state, costs) ==
    \A res \in DOMAIN costs : state.resources[res] >= costs[res]

\* GameState::build_robot(blueprint, resource): Some(()) or None
build_robot_ok(state, blueprint, resource) ==
    /\ resource \in DOMAIN blueprint
    /\ can_afford(state, blueprint[resource])

\* build_robot without the can_afford test of line 65
build_robot_unchecked(state, blueprint, resource) ==
    IF resource \in DOMAIN blueprint
    THEN [robots |-> [state.robots EXCEPT ![resource] = @ + 1],
          resources |-> [r \in Resource |->
                IF r \in DOMAIN blueprint[resource]
                THEN state.resources[r] - blueprint[resource][r]
                ELSE state.resources[r]]]
    ELSE state

\* GameState::build_robot(blueprint, resource): the state it leaves behind
build_robot(state, blueprint, resource) ==
    IF build_robot_ok(state, blueprint, resource)
    THEN [robots |-> [state.robots EXCEPT ![resource] = @ + 1],
          resources |-> [r \in Resource |->
                IF r \in DOMAIN blueprint[resource]
                THEN state.resources[r] - blueprint[resource][r]
                ELSE state.resources[r]]]
    ELSE state

\* GameState::affordable_robots(blueprint)
affordable_robots(state, blueprint) ==
    {res \in DOMAIN blueprint : can_afford(state, blueprint[res])}

\* the fold of needed_robots: the largest amount of each resource that any
\* single recipe asks for (resources no recipe asks for have no entry)
max_robots(blueprint) ==
    LET keys == UNION {DOMAIN blueprint[k] : k \in DOMAIN blueprint}
        amounts(res) == {blueprint[k][res] : k \in {q \in DOMAIN blueprint : res \in DOMAIN blueprint[q]}}
    IN [res \in keys |-> CHOOSE c \in amounts(res) : \A d \in amounts(res) : c >= d]

\* needed_robots with <= where line 107 has <
needed_robots_at_most(state, blueprint) ==
    {resource \in DOMAIN max_robots(blueprint) :
        state.robots[resource] <= max_robots(blueprint)[resource]}

\* GameState::needed_robots(blueprint)
needed_robots(state, blueprint) ==
    {resource \in DOMAIN max_robots(blueprint) :
        state.robots[resource] < max_robots(blueprint)[resource]}

\* robots_to_buy without the intersection with needed_robots of line 117
robots_to_buy_all_affordable(state, blueprint) ==
    IF "Geode" \in affordable_robots(state, blueprint)
    THEN {"Geode"}
    ELSE affordable_robots(state, blueprint)

\* GameState::robots_to_buy(blueprint)
robots_to_buy(state, blueprint) ==
    IF "Geode" \in affordable_robots(state, blueprint)
    THEN {"Geode"}
    ELSE affordable_robots(state, blueprint) \cap needed_robots(state, blueprint)

\* GameState::geodes()
geodes(state) == state.resources["Geode"]

\* geodes_upper_limit without the optimistic term
geodes_upper_limit_of_robots(state, minutes) ==
    LET current == geodes(state)
        future == wrapping_mul(state.robots["Geode"], minutes)
    IN wrapping_add(current, future)

\* geodes_upper_limit without the geodes of the robots already owned
geodes_upper_limit_without_future(state, minutes) ==
    LET current == geodes(state)
        optimistic == wrapping_mul(wrapping_sub(minutes, 1), minutes \div 2)
    IN wrapping_add(current, optimistic)

\* GameState::geodes_upper_limit(minutes)
geodes_upper_limit(state, minutes) ==
    LET current == geodes(state)
        future == wrapping_mul(state.robots["Geode"], minutes)
        optimistic == wrapping_mul(wrapping_sub(minutes, 1), minutes \div 2)
    IN wrapping_add(wrapping_add(current, future), optimistic)

\* ------------------------------------------------------------ blueprints
\* Blueprint { robot_costs: HashMap<Resource, HashMap<Resource, usize>> }, as
\* the parser builds it from one input line: a recipe for some of the kinds,
\* each a non-empty map from resource to amount.
OreGeodeBlueprint(a, g) ==
    [k \in {"Ore", "Geode"} |->
        IF k = "Ore" THEN [r \in {"Ore"} |-> a] ELSE [r \in {"Ore"} |-> g]]

ClayBlueprint(b, h) ==
    [k \in {"Ore", "Clay", "Geode"} |->
        CASE k = "Ore" -> [r \in {"Ore"} |-> 2]
          [] k = "Clay" -> [r \in {"Ore"} |-> b]
          [] k = "Geode" -> [r \in {"Ore", "Clay"} |-> IF r = "Ore" THEN 1 ELSE h]]

ObsidianBlueprint(c) ==
    [k \in Resource |->
        CASE k = "Ore" -> [r \in {"Ore"} |-> 2]
          [] k = "Clay" -> [r \in {"Ore"} |-> 1]
          [] k = "Obsidian" -> [r \in {"Ore", "Clay"} |-> IF r = "Ore" THEN 1 ELSE c]
          [] k = "Geode" -> [r \in {"Ore", "Obsidian"} |-> IF r = "Ore" THEN 1 ELSE 2]]

\* a recipe for a clay robot, and no recipe that asks for clay
SpareClayBlueprint(b, g) ==
    [k \in {"Ore", "Clay", "Geode"} |->
        CASE k = "Ore" -> [r \in {"Ore"} |-> 2]
          [] k = "Clay" -> [r \in {"Ore"} |-> b]
          [] k = "Geode" -> [r \in {"Ore"} |-> g]]

OreGeodeBlueprints == {OreGeodeBlueprint(a, g) : a \in 1..MaxCost, g \in 1..MaxCost}

ClayBlueprints == {ClayBlueprint(b, h) : b \in 1..MaxCost, h \in 1..MaxCost}

ObsidianBlueprints == {ObsidianBlueprint(c) : c \in 1..MaxCost}

Blueprints == OreGeodeBlueprints \cup ClayBlueprints \cup ObsidianBlueprints

SpareClayBlueprints == {SpareClayBlueprint(b, g) : b \in 1..MaxCost, g \in 1..MaxCost}

\* the inputs of the specifications that run several searches in a row
CallBlueprints == {OreGeodeBlueprint(1, 1), ClayBlueprint(1, 1)}

\* ------------------------------------------------------------ the search
\* How a search is run: "code" is max_geode_helper as written; "noprune" is
\* the same routine with the check of Optimization #1 removed, "noforbid" the
\* same routine with an empty do_not_buy at every node.  The two reference
\* runs exist only to compare their result with the one of "code".  "stale"
\* is the same routine when the read of *running_max at line 149 may return
\* a value running_max held earlier in the search instead of the current one.
Variants == {"code", "noprune", "noforbid", "stale"}

VARIABLES
    blueprint,    \* self of max_geodes_in_minutes
    minutes,      \* its argument
    variant,      \* how this search is run
    phase,        \* "idle" before the call, "running", "done" after it
    stack,        \* the frames of max_geode_helper, innermost last
    running_max,  \* the local of max_geodes_in_minutes shared by &mut
    ret,          \* the value returned by the call that returned last
    result,       \* the value returned by max_geodes_in_minutes
    plan,         \* the calls the driver still has to make
    history,      \* the calls made so far, with their results
    calls,        \* how many times this search has entered max_geode_helper
    returned,     \* the call that returned last: how, and what it had on entry
    input,        \* the lines of the input of part_one / part_two
    part,         \* "one" or "two" for a run of the driver, "none" for a bare search
    answer        \* what the driver returned: <<>> before, <<n>> for Some(n)

vars == <<blueprint, minutes, variant, phase, stack, running_max, ret, result, plan, history, calls,
          returned, input, part, answer>>

\* one activation of max_geode_helper(minutes, state, do_not_buy, running_max);
\* entry, children and results only record what the activation was given
\* and what it has done: the state it was called with, the calls it has
\* made ("wait" or the kind built) and what its build calls returned
Frame(m, state, do_not_buy) ==
    [minutes |-> m, state |-> state, do_not_buy |-> do_not_buy, pc |-> "enter",
     candidates |-> {}, todo |-> {}, buy_a_robot |-> 0,
     entry |-> state, children |-> <<>>, results |-> <<>>]

\* no call of this search has returned yet
NotReturned == [how |-> "none", minutes |-> 0, state |-> NewGameState, best |-> 0]

\* the frame f returns by the way `how`, with best-so-far `best` at that moment
Returning(how, f, best) == [how |-> how, minutes |-> f.minutes, state |-> f.state, best |-> best]

Top == stack[Len(stack)]
Pop == SubSeq(stack, 1, Len(stack) - 1)
SetTop(f) == [stack EXCEPT ![Len(stack)] = f]

\* the test of line 152 off by one: the recursion goes down to minute 0
last_minute_at_zero(f) == f.minutes = 0

\* the test of line 152: one minute is left
last_minute(f) == f.minutes = 1

\* the condition of Optimization #1 with <= where line 149 has <
pruned_at_equal(f) ==
    /\ variant # "noprune"
    /\ geodes_upper_limit(f.state, f.minutes) <= running_max

\* the condition of Optimization #1
pruned(f) ==
    /\ variant # "noprune"
    /\ geodes_upper_limit(f.state, f.minutes) < running_max

\* the values the read of *running_max at line 149 may return: the current
\* one, or for a stale read any value from the 0 of line 191 up to it (the
\* check only compares, so a value in between that was never held decides
\* nothing that 0 or the current value does not)
best_so_far_read == IF variant = "stale" THEN 0..running_max ELSE {running_max}

\* line 149 takes the branch of line 150 for some value the read may return
cut(f) ==
    IF variant = "stale"
    THEN \E best \in best_so_far_read : geodes_upper_limit(f.state, f.minutes) < best
    ELSE pruned(f)

\* line 149 falls through to line 152 for some value the read may return
kept(f) ==
    IF variant = "stale"
    THEN \E best \in best_so_far_read : ~(geodes_upper_limit(f.state, f.minutes) < best)
    ELSE ~pruned(f)

\* the do_not_buy set a node works with
forbidden(f) == IF variant = "noforbid" THEN {} ELSE f.do_not_buy

\* max_geodes_in_minutes with a running_max that outlives the call
max_geodes_in_minutes_stale_max ==
    /\ phase = "idle"
    /\ phase' = "running"
    /\ stack' = <<Frame(minutes, NewGameState, {})>>
    /\ calls' = 1
    /\ returned' = NotReturned
    /\ UNCHANGED <<blueprint, minutes, variant, running_max, ret, result, plan, history, input, part, answer>>

\* Blueprint::max_geodes_in_minutes: let mut running_max = 0; the first call
max_geodes_in_minutes ==
    /\ phase = "idle"
    /\ phase' = "running"
    /\ running_max' = 0
    /\ stack' = <<Frame(minutes, NewGameState, {})>>
    /\ UNCHANGED <<blueprint, minutes, variant, ret, result, plan, history, input, part, answer>>
    /\ calls' = 1
    /\ returned' = NotReturned

\* Optimization #1: return 0, leaving running_max alone
Prune ==
    /\ phase = "running" /\ stack # <<>> /\ Top.pc = "enter"
    /\ cut(Top)
    /\ stack' = Pop
    /\ ret' = 0
    /\ returned' = Returning("pruned", Top, running_max)
    /\ UNCHANGED <<blueprint, minutes, variant, phase, running_max, result, plan, history, calls, input, part, answer>>

\* the last minute without its collect
LastMinuteWithoutCollect ==
    /\ phase = "running" /\ stack # <<>> /\ Top.pc = "enter"
    /\ kept(Top)
    /\ last_minute(Top)
    /\ LET max_geodes == geodes(Top.state)
       IN /\ running_max' = Max2(running_max, max_geodes)
          /\ ret' = max_geodes
    /\ stack' = Pop
    /\ returned' = Returning("last", Top, running_max)
    /\ UNCHANGED <<blueprint, minutes, variant, phase, result, plan, history, calls, input, part, answer>>

\* the last minute returning past the update of line 186
LastMinuteWithoutUpdate ==
    /\ phase = "running" /\ stack # <<>> /\ Top.pc = "enter"
    /\ kept(Top)
    /\ last_minute(Top)
    /\ LET max_geodes == geodes(collect(Top.state))
       IN /\ running_max' = running_max
          /\ ret' = max_geodes
    /\ stack' = Pop
    /\ returned' = Returning("last", Top, running_max)
    /\ UNCHANGED <<blueprint, minutes, variant, phase, result, plan, history, calls, input, part, answer>>

\* Optimization #2: the last minute only collects
LastMinute ==
    /\ phase = "running" /\ stack # <<>> /\ Top.pc = "enter"
    /\ kept(Top)
    /\ last_minute(Top)
    /\ LET max_geodes == geodes(collect(Top.state))
       IN /\ running_max' = Max2(running_max, max_geodes)
          /\ ret' = max_geodes
    /\ stack' = Pop
    /\ returned' = Returning("last", Top, running_max)
    /\ UNCHANGED <<blueprint, minutes, variant, phase, result, plan, history, calls, input, part, answer>>

\* Optimization #4 passing the do_not_buy of the node on to the call
BuildGeodeKeepingForbidden ==
    /\ phase = "running" /\ stack # <<>> /\ Top.pc = "enter"
    /\ kept(Top)
    /\ ~last_minute(Top)
    /\ "Geode" \in robots_to_buy(Top.state, blueprint)
    /\ Len(stack) < MaxDepth
    /\ LET state == build_robot(collect(Top.state), blueprint, "Geode")
       IN stack' = Append(SetTop([Top EXCEPT !.pc = "geode", !.state = state,
                                             !.candidates = {"Geode"},
                                             !.children = Append(@, "Geode")]),
                          Frame(wrapping_sub(Top.minutes, 1), state, Top.do_not_buy))
    /\ UNCHANGED <<blueprint, minutes, variant, phase, running_max, ret, result, plan, history, returned, input, part, answer>>
    /\ calls' = calls + 1

\* Optimization #4: the geode robot is affordable; collect, build it, recurse
BuildGeode ==
    /\ phase = "running" /\ stack # <<>> /\ Top.pc = "enter"
    /\ kept(Top)
    /\ ~last_minute(Top)
    /\ "Geode" \in robots_to_buy(Top.state, blueprint)
    /\ Len(stack) < MaxDepth
    /\ LET state == build_robot(collect(Top.state), blueprint, "Geode")
       IN stack' = Append(SetTop([Top EXCEPT !.pc = "geode", !.state = state,
                                             !.candidates = {"Geode"},
                                             !.children = Append(@, "Geode")]),
                          Frame(wrapping_sub(Top.minutes, 1), state, {}))
    /\ UNCHANGED <<blueprint, minutes, variant, phase, running_max, ret, result, plan, history, returned, input, part, answer>>
    /\ calls' = calls + 1

\* ... and return what that call returned (line 167 returns past line 186)
ReturnGeode ==
    /\ phase = "running" /\ stack # <<>> /\ Top.pc = "geode"
    /\ stack' = Pop
    /\ returned' = Returning("geode", Top, running_max)
    /\ UNCHANGED <<blueprint, minutes, variant, phase, running_max, ret, result, plan, history, calls, input, part, answer>>

\* Optimization #3 and #5: the candidates, and those not in do_not_buy
Candidates ==
    /\ phase = "running" /\ stack # <<>> /\ Top.pc = "enter"
    /\ kept(Top)
    /\ ~last_minute(Top)
    /\ "Geode" \notin robots_to_buy(Top.state, blueprint)
    /\ LET candidates == robots_to_buy(Top.state, blueprint)
       IN stack' = SetTop([Top EXCEPT !.pc = "buy", !.candidates = candidates,
                                      !.todo = candidates \ forbidden(Top)])
    /\ UNCHANGED <<blueprint, minutes, variant, phase, running_max, ret, result, plan, history, calls, returned, input, part, answer>>

\* the closure of buy_a_robot passing candidates on, as the wait call does
BuyRobotKeepingCandidates ==
    /\ phase = "running" /\ stack # <<>> /\ Top.pc = "buy"
    /\ Top.todo # {}
    /\ Len(stack) < MaxDepth
    /\ LET resource == FirstResource(Top.todo)
           state == build_robot(collect(Top.state), blueprint, resource)
       IN stack' = Append(SetTop([Top EXCEPT !.pc = "bought", !.todo = @ \ {resource},
                                             !.children = Append(@, resource)]),
                          Frame(wrapping_sub(Top.minutes, 1), state, Top.candidates))
    /\ UNCHANGED <<blueprint, minutes, variant, phase, running_max, ret, result, plan, history, returned, input, part, answer>>
    /\ calls' = calls + 1

\* the closure of buy_a_robot building before it collects
BuyRobotBeforeCollect ==
    /\ phase = "running" /\ stack # <<>> /\ Top.pc = "buy"
    /\ Top.todo # {}
    /\ Len(stack) < MaxDepth
    /\ LET resource == FirstResource(Top.todo)
           state == collect(build_robot(Top.state, blueprint, resource))
       IN stack' = Append(SetTop([Top EXCEPT !.pc = "bought", !.todo = @ \ {resource},
                                             !.children = Append(@, resource)]),
                          Frame(wrapping_sub(Top.minutes, 1), state, {}))
    /\ UNCHANGED <<blueprint, minutes, variant, phase, running_max, ret, result, plan, history, returned, input, part, answer>>
    /\ calls' = calls + 1

\* the closure of buy_a_robot working on the state of the node, not on a clone
BuyRobotWithoutClone ==
    /\ phase = "running" /\ stack # <<>> /\ Top.pc = "buy"
    /\ Top.todo # {}
    /\ Len(stack) < MaxDepth
    /\ LET resource == FirstResource(Top.todo)
           state == build_robot(collect(Top.state), blueprint, resource)
       IN stack' = Append(SetTop([Top EXCEPT !.pc = "bought", !.todo = @ \ {resource},
                                             !.children = Append(@, resource),
                                             !.state = state]),
                          Frame(wrapping_sub(Top.minutes, 1), state, {}))
    /\ UNCHANGED <<blueprint, minutes, variant, phase, running_max, ret, result, plan, history, returned, input, part, answer>>
    /\ calls' = calls + 1

\* the closure of buy_a_robot for the next candidate: clone, collect, build, recurse
BuyRobot ==
    /\ phase = "running" /\ stack # <<>> /\ Top.pc = "buy"
    /\ Top.todo # {}
    /\ Len(stack) < MaxDepth
    /\ LET resource == FirstResource(Top.todo)
           state == build_robot(collect(Top.state), blueprint, resource)
       IN stack' = Append(SetTop([Top EXCEPT !.pc = "bought", !.todo = @ \ {resource},
                                             !.children = Append(@, resource)]),
                          Frame(wrapping_sub(Top.minutes, 1), state, {}))
    /\ UNCHANGED <<blueprint, minutes, variant, phase, running_max, ret, result, plan, history, returned, input, part, answer>>
    /\ calls' = calls + 1

\* .last() where line 180 has .max(): the result of the last closure call
BoughtRobotLast ==
    /\ phase = "running" /\ stack # <<>> /\ Top.pc = "bought"
    /\ stack' = SetTop([Top EXCEPT !.pc = "buy", !.buy_a_robot = ret,
                                    !.results = Append(@, ret)])
    /\ UNCHANGED <<blueprint, minutes, variant, phase, running_max, ret, result, plan, history, calls, returned, input, part, answer>>

\* .max() over the results of the closure (unwrap_or(0): results are usize)
BoughtRobot ==
    /\ phase = "running" /\ stack # <<>> /\ Top.pc = "bought"
    /\ stack' = SetTop([Top EXCEPT !.pc = "buy", !.buy_a_robot = Max2(@, ret),
                                    !.results = Append(@, ret)])
    /\ UNCHANGED <<blueprint, minutes, variant, phase, running_max, ret, result, plan, history, calls, returned, input, part, answer>>

\* the wait child with the candidates less the do_not_buy of the node
WaitItOutLessForbidden ==
    /\ phase = "running" /\ stack # <<>> /\ Top.pc = "buy"
    /\ Top.todo = {}
    /\ Len(stack) < MaxDepth
    /\ LET state == collect(Top.state)
       IN stack' = Append(SetTop([Top EXCEPT !.pc = "wait", !.state = state,
                                             !.children = Append(@, "wait")]),
                          Frame(wrapping_sub(Top.minutes, 1), state, Top.candidates \ Top.do_not_buy))
    /\ UNCHANGED <<blueprint, minutes, variant, phase, running_max, ret, result, plan, history, returned, input, part, answer>>
    /\ calls' = calls + 1

\* the wait child with an empty do_not_buy, as the build calls have
WaitItOutForbiddingNothing ==
    /\ phase = "running" /\ stack # <<>> /\ Top.pc = "buy"
    /\ Len(stack) < MaxDepth
    /\ Top.todo = {}
    /\ LET state == collect(Top.state)
       IN stack' = Append(SetTop([Top EXCEPT !.pc = "wait", !.state = state,
                                             !.children = Append(@, "wait")]),
                          Frame(wrapping_sub(Top.minutes, 1), state, {}))
    /\ UNCHANGED <<blueprint, minutes, variant, phase, running_max, ret, result, plan, history, returned, input, part, answer>>
    /\ calls' = calls + 1

\* state.collect(); the wait child with do_not_buy = candidates
WaitItOut ==
    /\ phase = "running" /\ stack # <<>> /\ Top.pc = "buy"
    /\ Top.todo = {}
    /\ Len(stack) < MaxDepth
    /\ LET state == collect(Top.state)
       IN stack' = Append(SetTop([Top EXCEPT !.pc = "wait", !.state = state,
                                             !.children = Append(@, "wait")]),
                          Frame(wrapping_sub(Top.minutes, 1), state, Top.candidates))
    /\ UNCHANGED <<blueprint, minutes, variant, phase, running_max, ret, result, plan, history, returned, input, part, answer>>
    /\ calls' = calls + 1

\* the return of wait_it_out alone, where line 184 has buy_a_robot.max(wait_it_out)
ReturnMaxOfWait ==
    /\ phase = "running" /\ stack # <<>> /\ Top.pc = "wait"
    /\ LET wait_it_out == ret
           max_geodes == wait_it_out
       IN /\ running_max' = Max2(running_max, max_geodes)
          /\ ret' = max_geodes
    /\ stack' = Pop
    /\ returned' = Returning("max", Top, running_max)
    /\ UNCHANGED <<blueprint, minutes, variant, phase, result, plan, history, calls, input, part, answer>>

\* buy_a_robot.max(wait_it_out), the update of running_max, the return
ReturnMax ==
    /\ phase = "running" /\ stack # <<>> /\ Top.pc = "wait"
    /\ LET wait_it_out == ret
           max_geodes == Max2(Top.buy_a_robot, wait_it_out)
       IN /\ running_max' = Max2(running_max, max_geodes)
          /\ ret' = max_geodes
    /\ stack' = Pop
    /\ returned' = Returning("max", Top, running_max)
    /\ UNCHANGED <<blueprint, minutes, variant, phase, result, plan, history, calls, input, part, answer>>

\* a build with overflow checks: `minutes - 1` of line 133, the first thing a
\* call computes, panics when minutes is 0
Overflow ==
    /\ phase = "running" /\ stack # <<>> /\ Top.pc = "enter"
    /\ Top.minutes = 0
    /\ phase' = "panicked"
    /\ UNCHANGED <<blueprint, minutes, variant, stack, running_max, ret, result, plan, history, calls, returned, input, part, answer>>

\* max_geodes_in_minutes returns what the first call returned
Return ==
    /\ phase = "running" /\ stack = <<>>
    /\ phase' = "done"
    /\ result' = ret
    /\ history' = Append(history, [blueprint |-> blueprint, minutes |-> minutes,
                                   variant |-> variant, result |-> ret,
                                   calls |-> calls])
    /\ UNCHANGED <<blueprint, minutes, variant, stack, running_max, ret, plan, calls, returned, input, part, answer>>

\* the driver goes on to its next call
NextCall ==
    /\ phase = "done" /\ plan # <<>>
    /\ blueprint' = Head(plan).blueprint
    /\ minutes' = Head(plan).minutes
    /\ variant' = Head(plan).variant
    /\ plan' = Tail(plan)
    /\ phase' = "idle"
    /\ UNCHANGED <<stack, running_max, ret, result, history, calls, returned, input, part, answer>>

Helper ==
    \/ Prune \/ LastMinute \/ BuildGeode \/ ReturnGeode \/ Candidates
    \/ BuyRobot \/ BoughtRobot \/ WaitItOut \/ ReturnMax

\* ------------------------------------------------- one search of the code
\* before the first call: nothing has run
Idle ==
    /\ variant = "code"
    /\ phase = "idle"
    /\ stack = <<>>
    /\ running_max = 0
    /\ ret = 0
    /\ result = 0
    /\ history = <<>>
    /\ calls = 0
    /\ returned = NotReturned

\* a bare call of max_geodes_in_minutes: no driver runs
NoDriver ==
    /\ input = <<>>
    /\ part = "none"
    /\ answer = <<>>

Init ==
    /\ blueprint \in Blueprints
    /\ minutes \in 1..MaxMinutes
    /\ plan = <<>>
    /\ Idle
    /\ NoDriver

Next == max_geodes_in_minutes \/ Helper \/ Return

Spec == Init /\ [][Next]_vars

\* the recursion is synchronous: a call that can step does step
FairSpec == Init /\ [][Next]_vars /\ WF_vars(Next)

\* ------- one search of the code, on blueprints with a robot of no use too
InitSpare ==
    /\ blueprint \in ClayBlueprints \cup ObsidianBlueprints \cup SpareClayBlueprints
    /\ minutes \in 1..MaxMinutes
    /\ plan = <<>>
    /\ Idle
    /\ NoDriver

SpareSpec == InitSpare /\ [][Next]_vars

\* ------------------- one search of the code, the horizon of 0 minutes too
InitHorizon ==
    /\ blueprint \in Blueprints
    /\ minutes \in 0..MaxCallMinutes
    /\ plan = <<>>
    /\ Idle
    /\ NoDriver

NextHorizon == Next \/ Overflow

HorizonSpec == InitHorizon /\ [][NextHorizon]_vars

\* ------------------- one search of the code, on the ore and geode recipes
\* (the blueprints on which the feasible schedules are few enough to be
\* enumerated at every node)
InitOreGeode ==
    /\ blueprint \in OreGeodeBlueprints
    /\ minutes \in 1..MaxMinutes
    /\ plan = <<>>
    /\ Idle
    /\ NoDriver

OreGeodeSpec == InitOreGeode /\ [][Next]_vars

\* --------------------------- a search of the code, then a search to compare
\* The second search is either the same search with Optimization #1 removed,
\* or the same search with the do_not_buy sets ignored, or the search of the
\* code with one more minute.
Call(bl, m, v) == [blueprint |-> bl, minutes |-> m, variant |-> v]

InitPair ==
    /\ blueprint \in Blueprints
    /\ minutes \in 1..MaxMinutes
    /\ plan \in {<<Call(blueprint, minutes, "noprune")>>,
                 <<Call(blueprint, minutes, "noforbid")>>,
                 <<Call(blueprint, minutes + 1, "code")>>}
    /\ Idle
    /\ NoDriver

NextPair == Next \/ NextCall

PairSpec == InitPair /\ [][NextPair]_vars

\* ----------------------------------------- several searches of the code
CallMinutes == (MaxCallMinutes - 2)..MaxCallMinutes

CallInputs == {Call(bl, m, "code") : bl \in CallBlueprints, m \in CallMinutes}

RECURSIVE Plans(_)
Plans(n) ==
    IF n = 0 THEN {<<>>}
    ELSE {<<c>> \o p : c \in CallInputs, p \in Plans(n - 1)}

InitCalls ==
    /\ blueprint \in CallBlueprints
    /\ minutes \in CallMinutes
    /\ plan \in Plans(MaxCalls - 1)
    /\ Idle
    /\ NoDriver

CallsSpec == InitCalls /\ [][NextPair]_vars

\* ------------- a search of the code, then the same search with stale reads
InitStale ==
    /\ blueprint \in OreGeodeBlueprints
    /\ minutes \in 1..MaxMinutes
    /\ plan = <<Call(blueprint, minutes, "stale")>>
    /\ Idle
    /\ NoDriver

StaleSpec == InitStale /\ [][NextPair]_vars

\* -------------------------------------------------------------- the drivers
\* part_one and part_two: the horizons, and how many blueprints part_two takes
PartOneMinutes == 24
PartTwoMinutes == 32
PartTwoBlueprints == 3

\* One line of the input: the text of a blueprint ("Blueprint <number>: Each
\* ... robot costs ... ."), or any other text.
BlueprintLine(number, robot_costs) ==
    [readable |-> TRUE, number |-> number, robot_costs |-> robot_costs]

OtherLine == [readable |-> FALSE, number |-> 0, robot_costs |-> <<>>]

\* l.parse::<Blueprint>().ok(): Some(blueprint) or None as a sequence of at
\* most one element; the parser keeps the recipes and drops the number
parse(line) == IF line.readable THEN <<line.robot_costs>> ELSE <<>>

\* the same chain with map_while for filter_map: the first line that is no
\* blueprint ends the input
RECURSIVE map_while_parse(_)
map_while_parse(lines) ==
    IF lines = <<>> \/ parse(Head(lines)) = <<>> THEN <<>>
    ELSE parse(Head(lines)) \o map_while_parse(Tail(lines))

\* input.lines().filter_map(|l| l.parse::<Blueprint>().ok())
RECURSIVE filter_map_parse(_)
filter_map_parse(lines) ==
    IF lines = <<>> THEN <<>>
    ELSE parse(Head(lines)) \o filter_map_parse(Tail(lines))

\* Iterator::take(n)
take(n, seq) == SubSeq(seq, 1, IF Len(seq) < n THEN Len(seq) ELSE n)

\* Iterator::enumerate(): the pairs (n, s), n counted from 0
enumerate(seq) == [i \in DOMAIN seq |-> <<i - 1, seq[i]>>]

\* the closure of line 202: |(n, s)| (n + 1) * s
score(n, s) == (n + 1) * s

\* Iterator::sum()
RECURSIVE sum(_)
sum(seq) == IF seq = <<>> THEN 0 ELSE Head(seq) + sum(Tail(seq))

\* Iterator::product()
RECURSIVE product(_)
product(seq) == IF seq = <<>> THEN 1 ELSE Head(seq) * product(Tail(seq))

\* what the searches of this run returned, in the order they ran
Results == [i \in DOMAIN history |-> history[i].result]

\* .map(|b| b.max_geodes_in_minutes(m)) over the blueprints: the iterator
\* chain is lazy, so the searches run one after the other; with no blueprint
\* at all the fold returns its unit at once
Searches(blueprints, m, unit) ==
    IF blueprints = <<>>
    THEN /\ phase' = "answered"
         /\ answer' = <<unit>>
         /\ UNCHANGED <<blueprint, minutes, plan>>
    ELSE /\ phase' = "idle"
         /\ blueprint' = Head(blueprints)
         /\ minutes' = m
         /\ plan' = [i \in DOMAIN Tail(blueprints) |-> Call(Tail(blueprints)[i], m, "code")]
         /\ UNCHANGED answer

\* part_one, up to the first search
part_one ==
    /\ phase = "start" /\ part = "one"
    /\ Searches(filter_map_parse(input), PartOneMinutes, sum(<<>>))
    /\ UNCHANGED <<variant, stack, running_max, ret, result, history, calls, returned, input, part>>

\* part_two, up to the first search
part_two ==
    /\ phase = "start" /\ part = "two"
    /\ Searches(take(PartTwoBlueprints, filter_map_parse(input)), PartTwoMinutes, product(<<>>))
    /\ UNCHANGED <<variant, stack, running_max, ret, result, history, calls, returned, input, part>>

\* part_one after the last search: enumerate, map, sum, Some
cumulative_score ==
    /\ phase = "done" /\ plan = <<>> /\ part = "one"
    /\ phase' = "answered"
    /\ answer' = <<sum([i \in DOMAIN Results |->
                        score(enumerate(Results)[i][1], enumerate(Results)[i][2])])>>
    /\ UNCHANGED <<blueprint, minutes, variant, stack, running_max, ret, result, plan, history,
                   calls, returned, input, part>>

\* part_two after the last search: product, Some
max_product ==
    /\ phase = "done" /\ plan = <<>> /\ part = "two"
    /\ phase' = "answered"
    /\ answer' = <<product(Results)>>
    /\ UNCHANGED <<blueprint, minutes, variant, stack, running_max, ret, result, plan, history,
                   calls, returned, input, part>>

\* before part_one or part_two is called: no search has run
Start ==
    /\ blueprint = <<>>
    /\ minutes = 0
    /\ variant = "code"
    /\ phase = "start"
    /\ stack = <<>>
    /\ running_max = 0
    /\ ret = 0
    /\ result = 0
    /\ plan = <<>>
    /\ history = <<>>
    /\ calls = 0
    /\ returned = NotReturned
    /\ answer = <<>>

NextDriver == part_one \/ part_two \/ Next \/ NextCall \/ cumulative_score \/ max_product

\* --------------------------------------------- the drivers on short inputs
\* the lines an input is made of: two blueprints, numbered against their
\* order, and a line that is no blueprint
DriverLines ==
    {OtherLine,
     BlueprintLine(2, OreGeodeBlueprint(1, 1)),
     BlueprintLine(1, ClayBlueprint(1, 1))}

\* the inputs of at most n lines
RECURSIVE Inputs(_)
Inputs(n) ==
    IF n = 0 THEN {<<>>}
    ELSE Inputs(n - 1) \cup
         {<<l>> \o i : l \in DriverLines, i \in {j \in Inputs(n - 1) : Len(j) = n - 1}}

InitDriver ==
    /\ input \in Inputs(MaxLines)
    /\ part \in {"one", "two"}
    /\ Start

DriverSpec == InitDriver /\ [][NextDriver]_vars

\* ------------------------------------------ the drivers on the example input
\* the first blueprint of examples/19.txt (the text of the parser's test)
Fixture1 ==
    [k \in Resource |->
        CASE k = "Ore" -> [r \in {"Ore"} |-> 4]
          [] k = "Clay" -> [r \in {"Ore"} |-> 2]
          [] k = "Obsidian" -> [r \in {"Ore", "Clay"} |-> IF r = "Ore" THEN 3 ELSE 14]
          [] k = "Geode" -> [r \in {"Ore", "Obsidian"} |-> IF r = "Ore" THEN 2 ELSE 7]]

\* the second blueprint of examples/19.txt
Fixture2 ==
    [k \in Resource |->
        CASE k = "Ore" -> [r \in {"Ore"} |-> 2]
          [] k = "Clay" -> [r \in {"Ore"} |-> 3]
          [] k = "Obsidian" -> [r \in {"Ore", "Clay"} |-> IF r = "Ore" THEN 3 ELSE 8]
          [] k = "Geode" -> [r \in {"Ore", "Obsidian"} |-> IF r = "Ore" THEN 3 ELSE 12]]

\* advent_of_code::read_file("examples", 19)
Examples == <<BlueprintLine(1, Fixture1), BlueprintLine(2, Fixture2)>>

\* tests::test_part_one: part_one(&input)
InitExamplePartOne ==
    /\ input = Examples
    /\ part = "one"
    /\ Start

NextPartOne == part_one \/ Next \/ NextCall \/ cumulative_score

ExamplePartOneSpec == InitExamplePartOne /\ [][NextPartOne]_vars

\* tests::part_two_blueprint_1: the first line of the examples, parsed, and
\* max_geodes_in_minutes(32) on it
InitBlueprintOne ==
    /\ blueprint = parse(Head(Examples))[1]
    /\ minutes = PartTwoMinutes
    /\ plan = <<>>
    /\ Idle
    /\ NoDriver

BlueprintOneSpec == InitBlueprintOne /\ [][Next]_vars

\* ------------------------------------------------- the feasible schedules
\* What the search is measured against.  One minute of a schedule: build at
\* most one robot whose cost the stock held at the start of the minute pays,
\* and every robot owned at the start of the minute yields one unit.
ScheduleMinute(state, bl) ==
    {collect(state)} \cup
    {build_robot(collect(state), bl, k) : k \in affordable_robots(state, bl)}

\* the same minute when the builds are restricted to robots_to_buy
CandidateMinute(state, bl) ==
    {collect(state)} \cup
    {build_robot(collect(state), bl, k) : k \in robots_to_buy(state, bl)}

\* the states of all schedules of m minutes that start in a state of S
RECURSIVE Schedules(_, _, _)
Schedules(S, bl, m) ==
    IF m = 0 THEN S
    ELSE Schedules(UNION {ScheduleMinute(state, bl) : state \in S}, bl, m - 1)

RECURSIVE CandidateSchedules(_, _, _)
CandidateSchedules(S, bl, m) ==
    IF m = 0 THEN S
    ELSE CandidateSchedules(UNION {CandidateMinute(state, bl) : state \in S}, bl, m - 1)

SetMax(S) == CHOOSE x \in S : \A y \in S : x >= y

\* the largest final geode stock of any feasible schedule of m minutes
BestYield(state, bl, m) == SetMax({geodes(t) : t \in Schedules({state}, bl, m)})

CandidateBestYield(state, bl, m) ==
    SetMax({geodes(t) : t \in CandidateSchedules({state}, bl, m)})

\* a node of the search that is about to be worked on
AtNode == phase = "running" /\ stack # <<>> /\ Top.pc = "enter"

\* ------------------------------------------------------------------ C1
\* C1: when a search of the code is done, its result is the largest final
\* geode stock over all feasible schedules of `minutes` minutes.
Optimality ==
    (phase = "done" /\ variant = "code") =>
        result = BestYield(NewGameState, blueprint, minutes)

\* ------------------------------------------------------------------ C2
\* C2: at every node the search reaches, with m minutes remaining, the upper
\* limit is at least the best final geode stock any schedule reaches from it.
BoundSoundness ==
    AtNode =>
        geodes_upper_limit(Top.state, Top.minutes)
            >= BestYield(Top.state, blueprint, Top.minutes)

\* ------------------------------------------------------------------ C3
\* C3: the upper limit of every node is geode stock + geode robots * m plus
\* the triangular number m(m-1)/2, for odd and even m alike.
UpperLimitIsTriangular ==
    AtNode =>
        geodes_upper_limit(Top.state, Top.minutes)
            = geodes(Top.state) + Top.state.robots["Geode"] * Top.minutes
              + ((Top.minutes - 1) * Top.minutes) \div 2

\* ------------------------------------------------------------------ C5
\* C5: from every node of the search, exhaustive search over the schedules
\* that only build kinds of robots_to_buy (waiting always allowed) attains
\* the optimum of exhaustive search over all feasible schedules.
CandidateSetCorrectness ==
    AtNode =>
        CandidateBestYield(Top.state, blueprint, Top.minutes)
            = BestYield(Top.state, blueprint, Top.minutes)

\* ------------------------------------------------------------------ C6
\* C6: at every node with more than one minute left where the geode robot
\* is affordable, the best yield after building it this minute equals the
\* best yield of the node under any choice.
ForcedGeodeLosesNothing ==
    (AtNode /\ Top.minutes > 1 /\ "Geode" \in affordable_robots(Top.state, blueprint)) =>
        BestYield(build_robot(collect(Top.state), blueprint, "Geode"), blueprint, Top.minutes - 1)
            = BestYield(Top.state, blueprint, Top.minutes)

\* ------------------------------------------------------------------ C4
\* the two searches of a pair, once both are done
PairDone(v) ==
    /\ phase = "done" /\ Len(history) = 2
    /\ history[1].variant = "code" /\ history[2].variant = v
    /\ history[2].blueprint = history[1].blueprint

\* C4: the search returns what the same search without the prune check returns.
PruningLosesNothing ==
    (PairDone("noprune") /\ history[2].minutes = history[1].minutes) =>
        history[1].result = history[2].result

\* ------------------------------------------------------------------ C7
\* C7: the search returns what the same search returns when it ignores the
\* do_not_buy sets and reconsiders every candidate at every node.
ForbiddenSetLosesNothing ==
    (PairDone("noforbid") /\ history[2].minutes = history[1].minutes) =>
        history[1].result = history[2].result

\* the rule has cut branches off, and the search still found geodes
ForbiddenSetWitness ==
    /\ PairDone("noforbid") /\ history[2].minutes = history[1].minutes
    /\ history[1].calls < history[2].calls
    /\ history[1].result = history[2].result
    /\ history[1].result > 0

\* ------------------------------------------------------------------ C8
\* C8: for a fixed blueprint and m >= 2, the search with m minutes returns
\* at least what the search with m - 1 minutes returns.
HorizonMonotonicity ==
    (PairDone("code") /\ history[2].minutes = history[1].minutes + 1) =>
        history[2].result >= history[1].result

\* one more minute has brought more geodes
HorizonWitness ==
    /\ PairDone("code") /\ history[2].minutes = history[1].minutes + 1
    /\ history[1].result > 0
    /\ history[2].result > history[1].result

\* ------------------------------------------------------------------ C9
\* C9: two searches with the same blueprint and minutes return the same
\* integer whatever ran before or between them, and every search starts
\* from GameState::new(), an empty do_not_buy and a running_max of 0.
Determinism ==
    /\ \A i, j \in DOMAIN history :
          (/\ history[i].blueprint = history[j].blueprint
           /\ history[i].minutes = history[j].minutes
           /\ history[i].variant = history[j].variant)
              => history[i].result = history[j].result
    /\ (AtNode /\ calls = 1) =>
          /\ Top = Frame(minutes, NewGameState, {})
          /\ running_max = 0

\* the same search ran twice, a search that found more geodes in between
DeterminismWitness ==
    /\ phase = "done" /\ Len(history) >= 3
    /\ history[1].blueprint = history[3].blueprint
    /\ history[1].minutes = history[3].minutes
    /\ history[1].result > 0
    /\ history[2].result > history[1].result
    /\ history[3].result = history[1].result

\* ----------------------------------------------------------------- C10
\* every recursive call has one minute less than its caller, at least one
\* minute, and the recursion is at most `minutes` deep
RecursionShape ==
    /\ Len(stack) <= minutes
    /\ \A i \in DOMAIN stack :
          /\ stack[i].minutes = minutes - (i - 1)
          /\ stack[i].minutes >= 1
          /\ (stack[i].minutes = 1 => i = Len(stack))

\* C10: the search eventually returns; every recursive call is made with
\* minutes one less than its caller's, every call has minutes >= 1, the
\* recursion is never deeper than the horizon and stops at minutes = 1.
Termination == <>(phase = "done") /\ []RecursionShape

\* a search that recursed down to the last minute has returned
TerminationWitness ==
    /\ phase = "done"
    /\ minutes = MaxMinutes
    /\ calls > minutes

\* ----------------------------------------------------------------- C11
\* the states a search holds: one per frame of the recursion
SearchStates == {stack[i].state : i \in DOMAIN stack}

\* C11: in every state a search reaches, every robot count and every stock
\* is at least 0: no build has subtracted more than the stock held (in the
\* code the counts are usize, and a negative count is an underflow).
NonNegativity ==
    \A state \in SearchStates : \A r \in Resource :
        /\ state.robots[r] >= 0
        /\ state.resources[r] >= 0

\* a robot has been paid for with all of the stock its buyer held: what is
\* left of that stock is the harvest of the minute
NonNegativityWitness ==
    /\ Len(stack) >= 2
    /\ Top.pc = "enter"
    /\ stack[Len(stack) - 1].pc = "bought"
    /\ \E r \in Resource :
          /\ stack[Len(stack) - 1].state.resources[r] > 0
          /\ Top.state.resources[r] = stack[Len(stack) - 1].state.robots[r]

\* ----------------------------------------------------------------- C12
\* C12: part_one over the two example blueprints, in their order, runs the
\* search of the first at 24 minutes, which returns 9, then the search of
\* the second at 24 minutes, which returns 12, and returns Some(33).
ExamplePartOne ==
    /\ (Len(history) >= 1) =>
          /\ history[1].blueprint = Fixture1
          /\ history[1].minutes = 24
          /\ history[1].result = 9
    /\ (Len(history) >= 2) =>
          /\ history[2].blueprint = Fixture2
          /\ history[2].minutes = 24
          /\ history[2].result = 12
    /\ (phase = "answered") => (Len(history) = 2 /\ answer = <<33>>)

\* part_one has returned, after searches that pruned and found geodes
ExamplePartOneWitness ==
    /\ phase = "answered"
    /\ part = "one"
    /\ Len(history) = 2
    /\ history[1].result > 0 /\ history[2].result > 0
    /\ answer # <<>>

\* ----------------------------------------------------------------- C14
\* the blueprints of the input, in their order: the lines that are blueprints
ReadableBlueprints ==
    LET readable == SelectSeq(input, LAMBDA l : l.readable)
    IN [i \in DOMAIN readable |-> readable[i].robot_costs]

\* the searches that ran are those of the first n blueprints, in their
\* order, each with horizon m
SearchesRan(n, m) ==
    /\ Len(history) = n
    /\ \A i \in 1..n :
          /\ history[i].blueprint = ReadableBlueprints[i]
          /\ history[i].minutes = m

RECURSIVE IndexedSum(_)
IndexedSum(n) == IF n = 0 THEN 0 ELSE n * history[n].result + IndexedSum(n - 1)

RECURSIVE Product(_)
Product(n) == IF n = 0 THEN 1 ELSE history[n].result * Product(n - 1)

\* C14: part_one searches every blueprint of the input at 24 minutes and
\* returns the sum of (1-based index among the blueprints) * yield; part_two
\* searches the first three blueprints only, at 32 minutes, and returns the
\* product of their yields; a line that is no blueprint is skipped, and the
\* run goes on until it has answered.
DriverAggregation ==
    /\ (phase = "answered" /\ part = "one") =>
          /\ SearchesRan(Len(ReadableBlueprints), 24)
          /\ answer = <<IndexedSum(Len(history))>>
    /\ (phase = "answered" /\ part = "two") =>
          /\ SearchesRan(IF Len(ReadableBlueprints) < 3 THEN Len(ReadableBlueprints) ELSE 3, 32)
          /\ answer = <<Product(Len(history))>>
    /\ (phase # "answered") => ENABLED NextDriver

\* part_two has answered on an input of four blueprints and a line that is
\* none: three searches ran
DriverAggregationWitness ==
    /\ phase = "answered"
    /\ part = "two"
    /\ Len(ReadableBlueprints) = 4
    /\ Len(input) = 5
    /\ ~input[2].readable
    /\ Len(history) = 3
    /\ answer = <<history[1].result * history[2].result * history[3].result>>
    /\ answer[1] > 0

\* ----------------------------------------------------------------- C13
\* C13: max_geodes_in_minutes(32) on the first example blueprint returns 56,
\* and at no moment of that search is best-so-far above 56.
BlueprintOneAt32 ==
    /\ blueprint = Fixture1
    /\ minutes = 32
    /\ running_max <= 56
    /\ (phase = "done") => (result = 56)

\* the search at 32 minutes is under way: it has found geodes and has just
\* cut a branch whose upper limit is below them
BlueprintOneAt32Witness ==
    /\ phase = "running"
    /\ blueprint = Fixture1
    /\ minutes = 32
    /\ running_max > 0
    /\ returned.how = "pruned"
    /\ returned.minutes > 1

\* ----------------------------------------------------------------- C15
\* what the recipe of kind k takes of resource r ("none": nothing is built)
Paid(k, r) ==
    IF k # "none" /\ r \in DOMAIN blueprint[k] THEN blueprint[k][r] ELSE 0

\* the minute that leads from the state `before` to the state `after`: one
\* collect of the robots owned before, and the build of k (or none), paid
\* from the stock held before the collect
OneMinute(before, after, k) ==
    /\ \A r \in Resource : before.resources[r] >= Paid(k, r)
    /\ \A r \in Resource :
          /\ after.robots[r] = before.robots[r] + (IF r = k THEN 1 ELSE 0)
          /\ after.resources[r] = before.resources[r] + before.robots[r] - Paid(k, r)

BuildStates == SearchStates \cup {collect(state) : state \in SearchStates}

\* C16: in every such state and for every kind k, when the blueprint has a
\* recipe for k and the stock covers every amount of it, build_robot reports
\* success, takes exactly the recipe from the stock, adds one robot of kind
\* k and changes nothing else; otherwise it reports failure and leaves the
\* state as it was.
BuildRobotContract ==
    \A state \in BuildStates : \A k \in Resource :
        LET affordable ==
                /\ k \in DOMAIN blueprint
                /\ \A r \in DOMAIN blueprint[k] : state.resources[r] >= blueprint[k][r]
            after == build_robot(state, blueprint, k)
        IN IF affordable
           THEN /\ build_robot_ok(state, blueprint, k)
                /\ \A r \in Resource :
                      /\ after.robots[r] = state.robots[r] + (IF r = k THEN 1 ELSE 0)
                      /\ after.resources[r] = state.resources[r] - Paid(k, r)
           ELSE /\ ~build_robot_ok(state, blueprint, k)
                /\ after = state

\* an ore robot has just been built, in a state where the geode robot was
\* too dear and the blueprint has no recipe for a clay robot
BuildRobotWitness ==
    /\ Len(stack) >= 2
    /\ Top.pc = "enter"
    /\ stack[Len(stack) - 1].pc = "bought"
    /\ "Clay" \notin DOMAIN blueprint
    /\ LET before == collect(stack[Len(stack) - 1].state)
       IN /\ Top.state = build_robot(before, blueprint, "Ore")
          /\ Top.state.robots["Ore"] = before.robots["Ore"] + 1
          /\ Top.state.resources["Ore"] < before.resources["Ore"]
          /\ ~build_robot_ok(before, blueprint, "Geode")
          /\ build_robot(before, blueprint, "Geode") = before
          /\ build_robot(before, blueprint, "Clay") = before

\* ----------------------------------------------------------------- C17
\* C17: in every state of the search, robots_to_buy is {Geode} when the
\* stock pays the geode recipe, and otherwise the kinds whose recipe the
\* stock pays and of which fewer robots are owned than some recipe asks
\* units of; Geode is in it iff its recipe is paid, and every kind in it is
\* one whose recipe is paid.
CandidateSelection ==
    \A state \in SearchStates :
        LET affordable ==
                {k \in DOMAIN blueprint :
                    \A r \in DOMAIN blueprint[k] : state.resources[r] >= blueprint[k][r]}
            needed ==
                {k \in Resource :
                    \E q \in DOMAIN blueprint :
                        k \in DOMAIN blueprint[q] /\ state.robots[k] < blueprint[q][k]}
            bought == robots_to_buy(state, blueprint)
        IN /\ bought = IF "Geode" \in affordable THEN {"Geode"} ELSE affordable \cap needed
           /\ ("Geode" \in bought) <=> ("Geode" \in affordable)
           /\ bought \subseteq affordable

\* a node has chosen its candidates: the ore robot is affordable but no
\* more ore robots are needed, the clay robot is affordable and needed
CandidateSelectionWitness ==
    /\ phase = "running" /\ stack # <<>>
    /\ Top.pc = "buy"
    /\ Top.candidates = robots_to_buy(Top.state, blueprint)
    /\ "Ore" \in affordable_robots(Top.state, blueprint)
    /\ "Ore" \notin Top.candidates
    /\ "Clay" \in Top.candidates

\* ----------------------------------------------------------------- C18
\* the geode stock of a state after one more collect
FinalYield(state) == geodes(state) + state.robots["Geode"]

\* C18 as stated: every call with one minute left collects once, builds
\* nothing, calls nothing and returns the geode stock after the collect,
\* whatever best-so-far is.
TerminalNodeAlwaysCollects ==
    [][(AtNode /\ Top.minutes = 1) =>
            /\ stack' = Pop
            /\ calls' = calls
            /\ returned'.how = "last"
            /\ ret' = FinalYield(Top.state)
      ]_vars

\* C18: every call with one minute left builds nothing and calls nothing;
\* when its geode stock after one more collect is at least best-so-far it
\* collects and returns that stock, raising best-so-far to it; when it is
\* below best-so-far the call is cut like any other node: it returns 0
\* without collecting and leaves best-so-far alone.
TerminalNode ==
    [][(AtNode /\ Top.minutes = 1) =>
            /\ stack' = Pop
            /\ calls' = calls
            /\ IF FinalYield(Top.state) < running_max
               THEN /\ returned'.how = "pruned"
                    /\ ret' = 0
                    /\ running_max' = running_max
               ELSE /\ returned'.how = "last"
                    /\ ret' = FinalYield(Top.state)
                    /\ running_max' = FinalYield(Top.state)
      ]_vars

\* a call with one minute left has been cut: it would have ended with
\* geodes, fewer than best-so-far, and has returned 0
TerminalNodeWitness ==
    /\ phase = "running"
    /\ returned.how = "pruned"
    /\ returned.minutes = 1
    /\ FinalYield(returned.state) > 0
    /\ FinalYield(returned.state) < running_max
    /\ ret = 0

\* ----------------------------------------------------------------- C19
\* C19: at a node with more than one minute left, when the upper limit is
\* below best-so-far the call returns 0, calls nothing and leaves
\* best-so-far alone; when it is equal or above, the node stays and goes on
\* to its forced build or to its candidates, and a node at its candidates
\* always makes a call next.
PruneStep ==
    [][/\ (AtNode /\ Top.minutes > 1) =>
            IF geodes_upper_limit(Top.state, Top.minutes) < running_max
            THEN /\ stack' = Pop
                 /\ calls' = calls
                 /\ ret' = 0
                 /\ running_max' = running_max
                 /\ returned'.how = "pruned"
            ELSE /\ Len(stack') >= Len(stack)
                 /\ stack'[Len(stack)].pc \in {"geode", "buy"}
                 /\ running_max' = running_max
                 /\ returned' = returned
       /\ (phase = "running" /\ stack # <<>> /\ Top.pc = "buy") =>
            /\ Len(stack') = Len(stack) + 1
            /\ calls' = calls + 1
      ]_vars

\* a node with more than one minute left has just been cut
PruneStepWitness ==
    /\ phase = "running"
    /\ returned.how = "pruned"
    /\ returned.minutes > 1
    /\ geodes_upper_limit(returned.state, returned.minutes) < returned.best
    /\ running_max = returned.best
    /\ ret = 0

\* ----------------------------------------------------------------- C20
\* C20: a node with more than one minute left that is not cut and whose
\* stock pays the geode recipe makes one call: with one minute less, the
\* state after a collect and the build of the geode robot, and an empty
\* do_not_buy; when that call has returned the node returns the same value,
\* without another call and without touching best-so-far.
ForcedGeodeBuild ==
    [][/\ (/\ AtNode /\ Top.minutes > 1
           /\ geodes_upper_limit(Top.state, Top.minutes) >= running_max
           /\ \A r \in DOMAIN blueprint["Geode"] :
                 Top.state.resources[r] >= blueprint["Geode"][r]) =>
            /\ Len(stack') = Len(stack) + 1
            /\ stack'[Len(stack)].pc = "geode"
            /\ stack'[Len(stack')].minutes = Top.minutes - 1
            /\ stack'[Len(stack')].do_not_buy = {}
            /\ OneMinute(Top.state, stack'[Len(stack')].state, "Geode")
       /\ (phase = "running" /\ stack # <<>> /\ Top.pc = "geode") =>
            /\ stack' = Pop
            /\ calls' = calls
            /\ ret' = ret
            /\ running_max' = running_max
      ]_vars

\* a node that came with a do_not_buy set has built the geode robot and
\* made its call, with an empty set
ForcedGeodeBuildWitness ==
    /\ Len(stack) >= 2
    /\ Top.pc = "enter"
    /\ stack[Len(stack) - 1].pc = "geode"
    /\ stack[Len(stack) - 1].do_not_buy # {}
    /\ Top.do_not_buy = {}
    /\ Top.minutes = stack[Len(stack) - 1].minutes - 1
    /\ Top.state.robots["Geode"] >= 1

\* ----------------------------------------------------------------- C21
Range(seq) == {seq[i] : i \in DOMAIN seq}

\* the kinds a node builds at its branch step: the candidates of the state
\* it was called with, less the do_not_buy set it was called with
BuildKinds(f) == robots_to_buy(f.entry, blueprint) \ f.do_not_buy

\* C21: a node with more than one minute left that is not cut and cannot
\* afford the geode robot goes to its branch step; there it makes one call
\* per kind of its candidates less its do_not_buy, each with one minute
\* less, the state after a collect and the build of that kind, and an
\* empty do_not_buy, then one wait call on the state after a collect; when
\* the wait call has returned it has made exactly these calls, and returns
\* the largest of what they returned.
BranchStep ==
    [][/\ (/\ AtNode /\ Top.minutes > 1
           /\ geodes_upper_limit(Top.state, Top.minutes) >= running_max
           /\ \E r \in DOMAIN blueprint["Geode"] :
                 Top.state.resources[r] < blueprint["Geode"][r]) =>
            /\ Len(stack') = Len(stack)
            /\ stack'[Len(stack)].pc = "buy"
       /\ (phase = "running" /\ stack # <<>> /\ Top.pc = "buy") =>
            /\ Len(stack') = Len(stack) + 1
            /\ LET node == Top
                   child == stack'[Len(stack')]
                   made == stack'[Len(stack)].children
                   k == made[Len(made)]
               IN /\ made = Append(node.children, k)
                  /\ child.minutes = node.minutes - 1
                  /\ IF Range(node.children) # BuildKinds(node)
                     THEN /\ k \in BuildKinds(node) \ Range(node.children)
                          /\ child.do_not_buy = {}
                          /\ OneMinute(node.entry, child.state, k)
                     ELSE /\ k = "wait"
                          /\ OneMinute(node.entry, child.state, "none")
       /\ (phase = "running" /\ stack # <<>> /\ Top.pc = "wait") =>
            /\ stack' = Pop
            /\ Len(Top.children) = Cardinality(BuildKinds(Top)) + 1
            /\ Range(Top.children) = BuildKinds(Top) \cup {"wait"}
            /\ Top.children[Len(Top.children)] = "wait"
            /\ Len(Top.results) = Len(Top.children) - 1
            /\ ret' = SetMax(Range(Top.results) \cup {ret})
      ]_vars

\* a node has built two kinds and is in its wait call; the first build call
\* returned more than the second
BranchStepWitness ==
    /\ Len(stack) >= 2
    /\ Top.pc = "enter"
    /\ LET node == stack[Len(stack) - 1]
       IN /\ node.pc = "wait"
          /\ Len(node.children) = 3
          /\ Len(node.results) = 2
          /\ node.results[1] > node.results[2]

\* ----------------------------------------------------------------- C22
\* a node at its branch step makes its wait call with this step
WaitCall ==
    /\ phase = "running" /\ stack # <<>> /\ Top.pc = "buy"
    /\ Len(stack') = Len(stack) + 1
    /\ stack'[Len(stack)].pc = "wait"

\* C22 as stated: the wait call is made with the candidates of the node
\* less the do_not_buy set the node was called with.
WaitForbiddenLessIncoming ==
    [][WaitCall =>
            stack'[Len(stack')].do_not_buy
                = robots_to_buy(Top.entry, blueprint) \ Top.do_not_buy
      ]_vars

\* C22: the wait call is made with all the candidates of the node, those of
\* the do_not_buy set the node was called with included; so the node it
\* leads to builds none of the candidates of this node, neither those
\* declined at this step nor those declined before it.
WaitForbidden ==
    [][WaitCall =>
            /\ stack'[Len(stack')].do_not_buy = robots_to_buy(Top.entry, blueprint)
            /\ BuildKinds(stack'[Len(stack')]) \cap robots_to_buy(Top.entry, blueprint) = {}
      ]_vars

\* a wait call has just been made by a node that came with a kind in its
\* do_not_buy set that was a candidate again: the call has that kind and
\* the kind built at this node in its set, and its state can pay for both
WaitForbiddenWitness ==
    /\ Len(stack) >= 2
    /\ Top.pc = "enter"
    /\ LET node == stack[Len(stack) - 1]
       IN /\ node.pc = "wait"
          /\ node.do_not_buy \cap node.candidates # {}
          /\ node.candidates \ node.do_not_buy # {}
          /\ Top.do_not_buy = node.candidates
          /\ node.candidates \subseteq affordable_robots(Top.state, blueprint)

\* ----------------------------------------------------------------- C23
\* the calls in progress: caller and called, one pair per level of the stack
Callers == 1..(Len(stack) - 1)

\* C23 as stated: along every path, the call made by a step that built a
\* robot has an empty do_not_buy, and the call made by a wait has the
\* do_not_buy of its caller, unchanged.
ForbiddenCarriedUnchanged ==
    \A i \in Callers :
        /\ (stack[i].pc \in {"bought", "geode"}) => stack[i + 1].do_not_buy = {}
        /\ (stack[i].pc = "wait") => stack[i + 1].do_not_buy = stack[i].do_not_buy

\* C23: along every path, the call made by a step that built a robot has
\* an empty do_not_buy; the call made by a wait has the candidates of its
\* caller, which contain the do_not_buy of the caller: over a run of waits
\* the set only grows, and it is not passed on as it is when a candidate
\* of the caller is missing from it.
ForbiddenLifecycle ==
    \A i \in Callers :
        /\ (stack[i].pc \in {"bought", "geode"}) => stack[i + 1].do_not_buy = {}
        /\ (stack[i].pc = "wait") =>
              /\ stack[i + 1].do_not_buy = robots_to_buy(stack[i].entry, blueprint)
              /\ stack[i].do_not_buy \subseteq stack[i + 1].do_not_buy
              /\ (stack[i + 1].do_not_buy = stack[i].do_not_buy)
                    <=> (BuildKinds(stack[i]) = {})

\* a path of two waits and a build: the first wait passes one kind on, the
\* second passes that kind and one more, the build passes none
ForbiddenLifecycleWitness ==
    /\ Len(stack) >= 4
    /\ LET n == Len(stack)
       IN /\ stack[n - 3].pc = "wait"
          /\ stack[n - 2].pc = "wait"
          /\ stack[n - 1].pc = "bought"
          /\ stack[n - 2].do_not_buy # {}
          /\ stack[n - 2].do_not_buy # stack[n - 1].do_not_buy
          /\ stack[n - 2].do_not_buy \subseteq stack[n - 1].do_not_buy
          /\ stack[n].do_not_buy = {}

\* ----------------------------------------------------------------- C24
\* C24: while a search runs best-so-far never decreases, and whenever a
\* call returns, by line 150, line 167 or line 187, best-so-far is at
\* least the value it returns.
BestSoFarAccumulator ==
    [][/\ (phase = "running") => running_max' >= running_max
       /\ (phase = "running" /\ Len(stack') < Len(stack)) => running_max' >= ret'
      ]_vars

\* a forced geode build has just returned, by line 167, what its call
\* returned: geodes, as many as best-so-far
BestSoFarWitness ==
    /\ phase = "running"
    /\ stack # <<>>
    /\ returned.how = "geode"
    /\ ret > 0
    /\ running_max = ret
    /\ returned.best = running_max

\* ----------------------------------------------------------------- C25
\* C25: in every state of a search, every call in progress was given the
\* state its caller was called with, after one collect and the one build
\* of the step that made the call (the kind built for a build call, the
\* geode robot for the forced build, none for the wait call), whatever the
\* calls the caller made before have collected and built; and a node that
\* has not yet made its wait call or its forced build still holds the state
\* it was called with.
BranchIsolation ==
    /\ (stack # <<>>) => stack[1].entry = NewGameState
    /\ \A i \in DOMAIN stack :
          (stack[i].pc \in {"enter", "buy", "bought"}) => stack[i].state = stack[i].entry
    /\ \A i \in Callers :
          LET node == stack[i]
              child == stack[i + 1]
              step == node.children[Len(node.children)]
          IN /\ node.children # <<>>
             /\ (node.pc = "bought") => step \in BuildKinds(node)
             /\ (node.pc = "geode") => step = "Geode"
             /\ (node.pc = "wait") => step = "wait"
             /\ OneMinute(node.entry, child.entry, IF step = "wait" THEN "none" ELSE step)

\* a node is in its wait call after a build call whose subtree built
\* robots and found geodes: the wait call was given the robots the node
\* was called with and its stock after one collect
BranchIsolationWitness ==
    /\ Len(stack) >= 2
    /\ Top.pc = "enter"
    /\ LET node == stack[Len(stack) - 1]
       IN /\ node.pc = "wait"
          /\ Len(node.children) >= 2
          /\ node.results[1] > 0
          /\ Top.entry = collect(node.entry)
          /\ Top.entry.robots = node.entry.robots

\* ----------------------------------------------------------------- C26
\* C26: whatever value between 0 and the current one each prune check
\* reads for best-so-far, the search returns what the search with exact
\* reads returns.
StaleReadsHarmless ==
    (PairDone("stale") /\ history[2].minutes = history[1].minutes) =>
        history[2].result = history[1].result

\* ----------------------------------------------------------------- C27
\* the search returns the last value of best-so-far
ReturnsBestSoFar == (phase = "done") => result = running_max

\* best-so-far starts at 0 and changes only when a call with one minute left
\* returns, to the geode stock that call ends with; the state of that call
\* is where a feasible schedule of all the minutes before it ends, its last
\* collect ends a feasible schedule of the whole horizon, and the new value
\* is at most the largest final geode stock of the feasible schedules
RaisedByExploredSchedule ==
    /\ (phase = "idle") => running_max' = 0
    /\ (phase = "running" /\ running_max' # running_max) =>
          /\ AtNode /\ Top.minutes = 1
          /\ returned'.how = "last"
          /\ running_max' = geodes(collect(Top.state))
          /\ LET before == Schedules({NewGameState}, blueprint, minutes - 1)
                 ends == UNION {ScheduleMinute(state, blueprint) : state \in before}
             IN /\ Top.state \in before
                /\ collect(Top.state) \in ends
                /\ running_max' <= SetMax({geodes(state) : state \in ends})

\* C27: at every moment of a search best-so-far is 0 or the final geode
\* stock of a complete feasible schedule the search has walked down to its
\* last minute, so it never exceeds the optimum; and the value
\* max_geodes_in_minutes returns is the last value of best-so-far.
AnswerAchieved == []ReturnsBestSoFar /\ [][RaisedByExploredSchedule]_vars

\* a search that made more calls than one path has is done: it returns
\* geodes, as many as best-so-far holds
AnswerAchievedWitness ==
    /\ phase = "done"
    /\ calls > 2 * minutes
    /\ result > 0
    /\ result = running_max
    /\ returned.how = "max"

\* ----------------------------------------------------------------- C28
\* the largest amount of kind k that any single recipe asks for, 0 when no
\* recipe asks for k
Required(k) ==
    SetMax({0} \cup {blueprint[q][k] : q \in {p \in DOMAIN blueprint : k \in DOMAIN blueprint[p]}})

\* C28: in every state of a search, for every kind k but Geode the robots
\* of kind k are at most the larger of the count the search starts with and
\* the largest amount of k a recipe asks for; and every robot but a geode
\* robot was built by a node that had fewer robots of its kind than that
\* amount, so none is built once the amount is reached and none of a kind
\* that no recipe asks for.
RobotCountCap ==
    /\ \A state \in SearchStates : \A k \in Resource \ {"Geode"} :
          state.robots[k] <= Max2(NewGameState.robots[k], Required(k))
    /\ \A i \in Callers :
          LET node == stack[i]
              child == stack[i + 1]
          IN \A k \in Resource \ {"Geode"} :
                (child.entry.robots[k] # node.entry.robots[k]) =>
                    /\ node.entry.robots[k] < Required(k)
                    /\ child.entry.robots[k] = node.entry.robots[k] + 1

\* a node can pay for an ore robot and for a clay robot and builds neither:
\* it has as many ore robots as the dearest recipe asks ore for, more than
\* it started with, and no recipe asks for clay
RobotCountCapWitness ==
    /\ Len(stack) >= 2
    /\ Top.pc = "enter"
    /\ LET node == stack[Len(stack) - 1]
       IN /\ node.pc = "wait"
          /\ node.children = <<"wait">>
          /\ {"Ore", "Clay"} \subseteq affordable_robots(node.entry, blueprint)
          /\ "Geode" \notin affordable_robots(node.entry, blueprint)
          /\ node.entry.robots["Ore"] = Required("Ore")
          /\ node.entry.robots["Ore"] > NewGameState.robots["Ore"]
          /\ Required("Clay") = 0

\* ----------------------------------------------------------------- C29
\* C29: max_geodes_in_minutes(0) does not panic, makes no call with more
\* minutes than it was given (no `minutes - 1` goes below 0), and returns 0.
DegenerateHorizon ==
    (minutes = 0) =>
        /\ phase # "panicked"
        /\ \A i \in DOMAIN stack : stack[i].minutes <= minutes
        /\ (phase = "done") => (result = 0)

\* ----------------------------------------------------------------- C30
\* the kinds a node has made a build call for
Built(f) == Range(f.children) \ {"wait"}

\* the kinds the stock of the state pays for
Payable(state) ==
    {k \in DOMAIN blueprint : \A r \in DOMAIN blueprint[k] : state.resources[r] >= blueprint[k][r]}

\* the kinds that the node can pay for and its caller could not, and of
\* which a robot is of use: a geode robot, or a robot of a kind of which
\* the node has fewer than some recipe asks for
NewlyPayable(caller, node) ==
    {k \in Payable(node.entry) \ Payable(caller.entry) :
        k = "Geode" \/ node.entry.robots[k] < Required(k)}

\* the nodes reached by a wait that have made all their build calls: the
\* positions i of the stack with the caller at i and the node at i + 1
ReachedByWait ==
    {i \in Callers : stack[i].pc = "wait" /\ stack[i + 1].pc \in {"wait", "geode"}}

\* C30 as stated: Geode is never in a do_not_buy set; a node reached by a
\* wait has a do_not_buy that contains the one of its caller; and a node
\* reached by a wait builds exactly the kinds of use that it can pay for
\* and its caller could not.
ForbiddenAlongWaitsAtEveryNode ==
    /\ \A i \in DOMAIN stack : "Geode" \notin stack[i].do_not_buy
    /\ \A i \in Callers :
          (stack[i].pc = "wait") => stack[i].do_not_buy \subseteq stack[i + 1].do_not_buy
    /\ \A i \in ReachedByWait :
          Built(stack[i + 1]) = NewlyPayable(stack[i], stack[i + 1])

\* C30: Geode is never in a do_not_buy set; a node reached by a wait has a
\* do_not_buy that contains the one of its caller; a node reached by a wait
\* that cannot pay for the geode robot builds, at its branch step, exactly
\* the kinds of which it has fewer robots than some recipe asks for and
\* that it can pay for and its caller could not; a node reached by a wait
\* that can pay for the geode robot, as its caller could not, builds the
\* geode robot and nothing else, whatever else it can newly pay for.
ForbiddenAlongWaits ==
    /\ \A i \in DOMAIN stack : "Geode" \notin stack[i].do_not_buy
    /\ \A i \in Callers :
          (stack[i].pc = "wait") => stack[i].do_not_buy \subseteq stack[i + 1].do_not_buy
    /\ \A i \in ReachedByWait :
          IF "Geode" \in Payable(stack[i + 1].entry)
          THEN /\ stack[i + 1].pc = "geode"
               /\ Built(stack[i + 1]) = {"Geode"}
               /\ "Geode" \in NewlyPayable(stack[i], stack[i + 1])
          ELSE /\ stack[i + 1].pc = "wait"
               /\ Built(stack[i + 1]) = NewlyPayable(stack[i], stack[i + 1])

\* a node reached by a wait has made its build calls: one, for a kind it
\* can newly pay for, and none for a kind that was declined before it and
\* that it can still pay for
ForbiddenAlongWaitsWitness ==
    /\ Len(stack) >= 3
    /\ LET caller == stack[Len(stack) - 2]
           node == stack[Len(stack) - 1]
       IN /\ caller.pc = "wait"
          /\ node.pc = "wait"
          /\ Cardinality(Built(node)) = 1
          /\ Built(node) = NewlyPayable(caller, node)
          /\ caller.do_not_buy # {}
          /\ caller.do_not_buy \subseteq Payable(node.entry)
          /\ caller.do_not_buy \cap Built(node) = {}
          /\ node.do_not_buy # caller.do_not_buy

====
